---------------------------- MODULE Spec2Model ----------------------------
(***************************************************************************)
(* Jump-mat generator (MatGenerator), ArUco marker encoder                 *)
(* (createArucoMarker) and the viewer that owns them (JumpMatViewer).      *)
(*                                                                         *)
(* Units.  A metric length is an integer number of 1/Scale metres; a pixel *)
(* length is an integer number of 1/Scale pixels, so that                  *)
(* meterToPixel(m) = m * pixelsPerMeter is exact.  Canvas dimensions are   *)
(* whole pixels, as the canvas element stores them.                        *)
(*                                                                         *)
(* Loop variables of the tick loops are IEEE-754 doubles: their decimal    *)
(* literals, the additions pos += 0.1 / pos += 0.01, the products pos*10   *)
(* and pos*100 and the comparisons pos <= end are computed bit-exactly on  *)
(* 53-bit significands (round to nearest, ties to even), because they      *)
(* decide which ticks exist and which tier each gets.                      *)
(***************************************************************************)
EXTENDS Integers, Sequences, FiniteSets, TLC

(***************************************************************************)
(* IEEE-754 double arithmetic on positive numbers.                         *)
(* A natural number M is a sequence of limbs, least significant first, in  *)
(* base 2^LimbBits.  A number is [m |-> M, e |-> k], standing for          *)
(* M * 2^k; a double has a significand M of exactly 53 bits.               *)
(***************************************************************************)
Significand == 53

LimbBits == 15

Base == 2 ^ LimbBits

Max(a, b) == IF a >= b THEN a ELSE b

Min(a, b) == IF a <= b THEN a ELSE b

RECURSIVE BNorm(_)
BNorm(a) == IF a = << >> THEN << >>
            ELSE IF a[Len(a)] = 0 THEN BNorm(SubSeq(a, 1, Len(a) - 1)) ELSE a

BLimb(a, i) == IF i >= 1 /\ i <= Len(a) THEN a[i] ELSE 0

RECURSIVE BAddC(_, _, _, _)
BAddC(a, b, i, c) ==
  IF i > Max(Len(a), Len(b)) THEN (IF c = 0 THEN << >> ELSE <<c>>)
  ELSE LET s == BLimb(a, i) + BLimb(b, i) + c
       IN  <<s % Base>> \o BAddC(a, b, i + 1, s \div Base)

BAdd(a, b) == BNorm(BAddC(a, b, 1, 0))

\* a * k for 0 <= k <= Base
RECURSIVE BMulC(_, _, _, _)
BMulC(a, k, i, c) ==
  IF i > Len(a) THEN (IF c = 0 THEN << >> ELSE <<c>>)
  ELSE LET s == a[i] * k + c
       IN  <<s % Base>> \o BMulC(a, k, i + 1, s \div Base)

BMulSmall(a, k) == BNorm(BMulC(a, k, 1, 0))

\* a * k for any integer k >= 0
RECURSIVE BMul(_, _)
BMul(a, k) == IF k < Base THEN BMulSmall(a, k)
              ELSE BAdd(BMulSmall(a, k % Base),
                        <<0>> \o BMul(a, k \div Base))

\* a * 2^s
BShl(a, s) ==
  LET w == [i \in 1..(s \div LimbBits) |-> 0]
  IN  BNorm(w \o BMulSmall(a, 2 ^ (s % LimbBits)))

\* floor(a / 2^s)
BShr(a, s) ==
  LET w == s \div LimbBits
      r == s % LimbBits
      n == Len(a) - w
  IN  IF n <= 0 THEN << >>
      ELSE BNorm([i \in 1..n |->
                    (a[i + w] \div (2 ^ r))
                    + (BLimb(a, i + w + 1) % (2 ^ r)) * (2 ^ (LimbBits - r))])

\* a mod 2^s
BLow(a, s) ==
  LET w == s \div LimbBits
      r == s % LimbBits
  IN  BNorm([i \in 1..Min(Len(a), w + 1) |->
               IF i <= w THEN a[i] ELSE a[i] % (2 ^ r)])

BBitLen(a) ==
  IF a = << >> THEN 0
  ELSE LimbBits * (Len(a) - 1)
       + (CHOOSE k \in 1..LimbBits : 2 ^ (k - 1) <= a[Len(a)] /\ a[Len(a)] < 2 ^ k)

\* -1, 0, 1 as a < b, a = b, a > b
RECURSIVE BCmpAt(_, _, _)
BCmpAt(a, b, i) == IF i = 0 THEN 0
                   ELSE IF a[i] < b[i] THEN -1
                   ELSE IF a[i] > b[i] THEN 1
                   ELSE BCmpAt(a, b, i - 1)

BCmp(a, b) == IF Len(a) < Len(b) THEN -1
              ELSE IF Len(a) > Len(b) THEN 1
              ELSE BCmpAt(a, b, Len(a))

RECURSIVE BToInt(_)
BToInt(a) == IF a = << >> THEN 0 ELSE a[1] + Base * BToInt(Tail(a))

\* x + y, exactly
ExactAdd(x, y) ==
  LET e == Min(x.e, y.e)
  IN  [m |-> BAdd(BShl(x.m, x.e - e), BShl(y.m, y.e - e)), e |-> e]

\* x * k for an integer k >= 1, exactly
ExactMul(x, k) == [m |-> BMul(x.m, k), e |-> x.e]

\* round to the nearest double, ties to even; sticky: a nonzero part of the value
\* lies below the bits of x
Round53(x, sticky) ==
  LET n == BBitLen(x.m) IN
  IF n <= Significand
  THEN [m |-> BShl(x.m, Significand - n), e |-> x.e - (Significand - n)]
  ELSE LET d    == n - Significand
           q    == BShr(x.m, d)
           c    == BCmp(BLow(x.m, d), BShl(<<1>>, d - 1))
           up   == c = 1 \/ (c = 0 /\ (sticky \/ q[1] % 2 = 1))
           inc  == BAdd(q, <<1>>)
       IN  IF ~up THEN [m |-> q, e |-> x.e + d]
           ELSE IF BBitLen(inc) > Significand
                THEN [m |-> BShr(inc, 1), e |-> x.e + d + 1]
                ELSE [m |-> inc, e |-> x.e + d]

\* the double sum x + y
FAdd(x, y) == Round53(ExactAdd(x, y), FALSE)

\* the double product x * k, k an integer
FMul(x, k) == Round53(ExactMul(x, k), FALSE)

\* x <= y
FLe(x, y) ==
  LET e == Min(x.e, y.e)
  IN  BCmp(BShl(x.m, x.e - e), BShl(y.m, y.e - e)) <= 0

\* floor(x) for x >= 0
Floor(x) == IF x.e >= 0 THEN BToInt(BShl(x.m, x.e)) ELSE BToInt(BShr(x.m, -x.e))

\* Math.round(x) = floor(x + 0.5)
MathRound(x) == Floor(ExactAdd(x, [m |-> <<1>>, e |-> -1]))

\* x % k === 0 for a double x > 0 and an integer k > 0
FModIsZero(x, k) ==
  /\ (x.e < 0 => BLow(x.m, -x.e) = << >>)
  /\ Floor(x) % k = 0

\* the limbs of r/d (0 <= r < d) below the binary point, most significant first
RECURSIVE Expand(_, _, _)
Expand(r, d, count) ==
  IF count = 0 THEN [limbs |-> << >>, r |-> r]
  ELSE LET rest == Expand((r * Base) % d, d, count - 1)
       IN  [limbs |-> rest.limbs \o <<(r * Base) \div d>>, r |-> rest.r]

FracLimbs == 5

\* the double a decimal literal n/d denotes (0 < n/d < Base, d < 2^16)
DoubleOf(n, d) ==
  LET x == Expand(n % d, d, FracLimbs)
  IN  Round53([m |-> BNorm(x.limbs \o <<n \div d>>), e |-> -(LimbBits * FracLimbs)],
              x.r # 0)

(***************************************************************************)
(* Signed doubles: [neg |-> sign, mag |-> magnitude], the magnitude a       *)
(* double as above or zero (an empty significand, exponent 0).             *)
(***************************************************************************)
\* a - b for a >= b
RECURSIVE BSubC(_, _, _, _)
BSubC(a, b, i, c) ==
  IF i > Len(a) THEN << >>
  ELSE <<(a[i] - BLimb(b, i) - c + Base) % Base>>
       \o BSubC(a, b, i + 1, IF a[i] - BLimb(b, i) - c < 0 THEN 1 ELSE 0)

BSub(a, b) == BNorm(BSubC(a, b, 1, 0))

ZeroMag == [m |-> << >>, e |-> 0]

\* zero has one representation
MagNorm(x) == IF x.m = << >> THEN ZeroMag ELSE x

\* -1, 0, 1 as x < y, x = y, x > y, for magnitudes
MagCmp(x, y) ==
  BCmp(BShl(x.m, x.e - Min(x.e, y.e)), BShl(y.m, y.e - Min(x.e, y.e)))

\* |x - y|, exactly
ExactDiff(x, y) ==
  IF MagCmp(x, y) >= 0
  THEN [m |-> BSub(BShl(x.m, x.e - Min(x.e, y.e)), BShl(y.m, y.e - Min(x.e, y.e))),
        e |-> Min(x.e, y.e)]
  ELSE [m |-> BSub(BShl(y.m, y.e - Min(x.e, y.e)), BShl(x.m, x.e - Min(x.e, y.e))),
        e |-> Min(x.e, y.e)]

\* the nearest double to an exact magnitude
MagRound(x) == IF x.m = << >> THEN ZeroMag ELSE Round53(x, FALSE)

\* the double sum a + b of signed doubles
SAdd(a, b) ==
  IF a.neg = b.neg
  THEN [neg |-> a.neg, mag |-> MagRound(ExactAdd(a.mag, b.mag))]
  ELSE [neg |-> IF MagCmp(a.mag, b.mag) > 0 THEN a.neg
                ELSE IF MagCmp(a.mag, b.mag) < 0 THEN b.neg ELSE FALSE,
        mag |-> MagRound(ExactDiff(a.mag, b.mag))]

SNeg(a) == [neg |-> a.mag # ZeroMag /\ ~a.neg, mag |-> a.mag]

\* the double difference a - b
SSub(a, b) == SAdd(a, [neg |-> ~b.neg, mag |-> b.mag])

\* the double product a * k, k a positive integer
SMul(a, k) == [neg |-> a.neg, mag |-> MagRound(ExactMul(a.mag, k))]

\* the double a decimal literal n/d denotes, n of either sign
Literal(n, d) ==
  IF n = 0 THEN [neg |-> FALSE, mag |-> ZeroMag]
  ELSE [neg |-> n < 0, mag |-> DoubleOf(IF n < 0 THEN -n ELSE n, d)]

\* a < b
SLess(a, b) ==
  IF a.neg # b.neg THEN a.neg
  ELSE IF a.neg THEN MagCmp(b.mag, a.mag) < 0
  ELSE MagCmp(a.mag, b.mag) < 0

\* |a - b|, exactly, for signed doubles
SDistance(a, b) ==
  IF a.neg = b.neg THEN MagNorm(ExactDiff(a.mag, b.mag))
  ELSE MagNorm(ExactAdd(a.mag, b.mag))

(***************************************************************************)
(* Units and platform conversions                                          *)
(***************************************************************************)
\* 1 metre = Scale metric units; 1 pixel = Scale pixel units
Scale == 10000

\* JavaScript's a % n for integers: the remainder takes the sign of the dividend
JsRem(a, n) == IF a >= 0 THEN a % n ELSE -((-a) % n)

CanvasDefaultWidth == 300

CanvasDefaultHeight == 150

\* canvas.width = v / canvas.height = v for a number v = sign * mag (mag a positive
\* double): the value is truncated to an integer; one that is negative is outside
\* the attribute's range and the attribute takes its default.
CanvasDim(sign, mag, default) ==
  IF sign < 0 THEN (IF Floor(mag) = 0 THEN 0 ELSE default)
  ELSE Floor(mag)

\* the same for a length given in pixel units (1/Scale px)
CanvasDimOfUnits(v, default) ==
  IF v >= 0 THEN v \div Scale
  ELSE IF (-v) \div Scale = 0 THEN 0 ELSE default

\* one drawing call recorded on a canvas: the pass that issued it, the call, its
\* geometry in pixel units (a rectangle x, y, w, h; a vertical line from (x, y) to
\* (x, y + h); a text at (x, y) of font size w), its line width, its style and
\* what it draws (a tick's position, a label, a marker's canvas)
Op(pass, kind, x, y, w, h, lw, style, tag) ==
  [pass |-> pass, kind |-> kind, x |-> x, y |-> y, w |-> w, h |-> h, lw |-> lw,
   style |-> style, tag |-> tag]

(***************************************************************************)
(* aruco.js                                                                *)
(***************************************************************************)
ARUCO_DICT_4X4_50 ==
  << << <<0, 0, 0, 0>>, <<0, 1, 0, 1>>, <<1, 1, 0, 0>>, <<0, 1, 1, 1>> >>,
     << <<1, 0, 0, 1>>, <<0, 1, 0, 1>>, <<1, 0, 0, 0>>, <<0, 1, 0, 1>> >>,
     << <<1, 1, 0, 0>>, <<0, 0, 1, 1>>, <<1, 0, 0, 1>>, <<1, 0, 1, 0>> >>,
     << <<0, 1, 1, 0>>, <<0, 0, 1, 1>>, <<1, 1, 0, 1>>, <<1, 0, 0, 0>> >>,
     << <<0, 0, 1, 1>>, <<1, 1, 0, 0>>, <<0, 1, 1, 0>>, <<1, 1, 0, 1>> >>,
     << <<1, 0, 1, 0>>, <<1, 1, 0, 0>>, <<0, 0, 1, 0>>, <<1, 1, 1, 1>> >>,
     << <<1, 1, 1, 1>>, <<0, 0, 0, 1>>, <<0, 0, 0, 1>>, <<0, 0, 0, 0>> >>,
     << <<0, 1, 0, 1>>, <<0, 0, 0, 1>>, <<0, 1, 0, 1>>, <<0, 0, 1, 0>> >>,
     << <<0, 0, 0, 1>>, <<1, 0, 1, 0>>, <<1, 1, 1, 0>>, <<1, 0, 0, 1>> >>,
     << <<1, 0, 0, 0>>, <<1, 0, 1, 0>>, <<1, 0, 1, 0>>, <<1, 0, 1, 1>> >>,
     << <<0, 1, 1, 1>>, <<1, 1, 1, 0>>, <<0, 0, 1, 1>>, <<0, 1, 0, 0>> >>,
     << <<1, 1, 1, 0>>, <<1, 1, 1, 0>>, <<0, 1, 1, 1>>, <<0, 0, 0, 0>> >> >>

\* whether ARUCO_DICT_4X4_50[i] is an element of the array (it is undefined
\* otherwise), and the element (JavaScript arrays start at 0)
InDict(i) == i >= 0 /\ i < Len(ARUCO_DICT_4X4_50)

\* the lookup, had the last entry been a copy of the first
DictAtDuplicate(i) == ARUCO_DICT_4X4_50[IF i = 11 THEN 1 ELSE i + 1]

DictAt(i) == ARUCO_DICT_4X4_50[i + 1]

\* the dictionary index createArucoMarker computes for an id
PatternIndex(id) == JsRem(id, Len(ARUCO_DICT_4X4_50))

\* the exported placement table
ARUCO_POSITIONS ==
  << [id |-> 8,  position |-> 0,     side |-> "left"],
     [id |-> 9,  position |-> 10000, side |-> "left"],
     [id |-> 10, position |-> 18000, side |-> "left"],
     [id |-> 11, position |-> 24000, side |-> "left"],
     [id |-> 0,  position |-> 0,     side |-> "right"],
     [id |-> 1,  position |-> 10000, side |-> "right"],
     [id |-> 2,  position |-> 18000, side |-> "right"],
     [id |-> 3,  position |-> 24000, side |-> "right"] >>

\* the data cells, had row and col been exchanged in the pattern lookup
MarkerCellsTransposed(pattern, size, borderSize) ==
  [k \in 1..16 |->
     LET row == (k - 1) \div 4
         col == (k - 1) % 4
     IN  Op("marker", "fillRect",
            6 * borderSize + size * (col + 1), 6 * borderSize + size * (row + 1),
            size, size, 0,
            IF pattern[col + 1][row + 1] = 1 THEN "#000000" ELSE "#FFFFFF",
            <<row, col>>)]

\* the 16 data cells, row by row; coordinates in sixths of a pixel unit
MarkerCells(pattern, size, borderSize) ==
  [k \in 1..16 |->
     LET row == (k - 1) \div 4
         col == (k - 1) % 4
     IN  Op("marker", "fillRect",
            6 * borderSize + size * (col + 1), 6 * borderSize + size * (row + 1),
            size, size, 0,
            IF pattern[row + 1][col + 1] = 1 THEN "#000000" ELSE "#FFFFFF",
            <<row, col>>)]

\* createArucoMarker(id, size, borderSize): size and borderSize in pixel units,
\* the recorded calls in sixths of a pixel unit (cellSize = size / 6).
\* pattern[row] of an undefined pattern throws a TypeError.
createArucoMarker(id, size, borderSize) ==
  LET totalSize == size + borderSize * 2
      index     == JsRem(id, Len(ARUCO_DICT_4X4_50))
      frame     == << Op("marker", "fillRect", 0, 0, 6 * totalSize, 6 * totalSize,
                         0, "#FFFFFF", "quiet"),
                      Op("marker", "fillRect", 6 * borderSize, 6 * borderSize,
                         6 * size, 6 * size, 0, "#000000", "border"),
                      Op("marker", "fillRect", 6 * borderSize + size,
                         6 * borderSize + size, 6 * size - size * 2,
                         6 * size - size * 2, 0, "#FFFFFF", "inner") >>
  IN  IF ~InDict(index)
      THEN [error |-> "TypeError",
            canvas |-> [width |-> 0, height |-> 0, ops |-> << >>]]
      ELSE [error |-> "none",
            canvas |-> [width  |-> CanvasDimOfUnits(totalSize, CanvasDefaultWidth),
                        height |-> CanvasDimOfUnits(totalSize, CanvasDefaultHeight),
                        ops    |-> frame \o MarkerCells(DictAt(index), size, borderSize)]]

\* the colour of pixel (px, py) of a canvas whose recorded rectangles (in sixths of
\* a pixel unit) all lie on whole pixels: that of the last rectangle covering it
PixelOf(canvas, px, py) ==
  LET U    == 6 * Scale
      hits == {i \in 1..Len(canvas.ops) :
                 /\ canvas.ops[i].x <= px * U /\ (px + 1) * U <= canvas.ops[i].x + canvas.ops[i].w
                 /\ canvas.ops[i].y <= py * U /\ (py + 1) * U <= canvas.ops[i].y + canvas.ops[i].h}
  IN  IF hits = {} THEN "transparent"
      ELSE canvas.ops[CHOOSE i \in hits : \A j \in hits : j <= i].style

Raster(canvas) ==
  [p \in (0..(canvas.width - 1)) \X (0..(canvas.height - 1)) |->
     PixelOf(canvas, p[1], p[2])]

(***************************************************************************)
(* config.js                                                               *)
(***************************************************************************)
TotalLength == 30000

TotalWidth == 9000

FineSpacing == 100

MAT_CONFIG ==
  [totalLength |-> TotalLength,
   totalWidth  |-> TotalWidth,
   \* zones takeoff, flight, landing, extended as <<start, end>>
   zones       |-> << <<-3000, 0>>, <<0, 14000>>, <<14000, 28000>>, <<28000, 30000>> >>,
   \* scales.fine.spacing
   fineSpacing |-> FineSpacing]

(***************************************************************************)
(* MatGenerator                                                            *)
(***************************************************************************)
DefaultPixelsPerMeter == 1200

\* this.canvas = null: canvases are numbered from 1, a texture or mesh is its
\* number in the heap, and 0 is null
NullCanvas == [id |-> 0, width |-> 0, height |-> 0, ops |-> << >>, passes |-> << >>]

IsNull(canvas) == canvas.id = 0

\* the takeoff margin left of the origin line, 0.3 m
LeadingOffset == 3000

NumSpecks == 50

colors ==
  [background |-> "#1a1a1a", border |-> "#c9a227", scaleYellow |-> "#c9a227",
   scaleFine |-> "#c9a227", textGold |-> "#c9a227", textWhite |-> "#ffffff",
   arucoWhite |-> "#ffffff", arucoBlack |-> "#000000"]

\* new MatGenerator(options): options is a record of the fields the caller gives.
\* config is { ...MAT_CONFIG, ...options }; pixelsPerMeter is
\* options.pixelsPerMeter || 1200.
\* generateRuns counts the runs of generate() on the instance and lazyRuns those
\* that a missing canvas triggered (history fields).
MatGenerator(options) ==
  [config |-> [f \in DOMAIN MAT_CONFIG \cup DOMAIN options |->
                 IF f \in DOMAIN options THEN options[f] ELSE MAT_CONFIG[f]],
   pixelsPerMeter |-> IF "pixelsPerMeter" \in DOMAIN options
                         /\ options.pixelsPerMeter # 0
                      THEN options.pixelsPerMeter ELSE DefaultPixelsPerMeter,
   canvas  |-> NullCanvas,
   texture |-> 0,
   generateRuns |-> 0,
   lazyRuns |-> 0]

Sign(v) == IF v < 0 THEN -1 ELSE 1

Abs(v) == IF v < 0 THEN -v ELSE v

\* a metric length as the double the configuration holds
MetricDouble(m) == DoubleOf(m, Scale)

\* initCanvas, had the canvas rounded its size to the nearest pixel
initCanvasRounding(g, cid) ==
  LET width  == FMul(FAdd(MetricDouble(g.config.totalLength), DoubleOf(3, 10)),
                     Abs(g.pixelsPerMeter))
      height == FMul(MetricDouble(g.config.totalWidth), Abs(g.pixelsPerMeter))
  IN  [g EXCEPT !.canvas =
         [id     |-> cid,
          width  |-> IF g.pixelsPerMeter < 0 THEN CanvasDefaultWidth
                     ELSE MathRound(width),
          height |-> IF g.pixelsPerMeter < 0 THEN CanvasDefaultHeight
                     ELSE MathRound(height),
          ops    |-> << >>,
          passes |-> << >>]]

\* initCanvas: a new canvas element, numbered cid, of the computed size
initCanvas(g, cid) ==
  LET width  == FMul(FAdd(MetricDouble(g.config.totalLength), DoubleOf(3, 10)),
                     Abs(g.pixelsPerMeter))
      height == FMul(MetricDouble(g.config.totalWidth), Abs(g.pixelsPerMeter))
  IN  [g EXCEPT !.canvas =
         [id     |-> cid,
          width  |-> CanvasDim(Sign(g.pixelsPerMeter), width, CanvasDefaultWidth),
          height |-> CanvasDim(Sign(g.pixelsPerMeter), height, CanvasDefaultHeight),
          ops    |-> << >>,
          passes |-> << >>]]

meterToPixel(g, meter) == meter * g.pixelsPerMeter

\* meterToPixel on doubles: meter * this.pixelsPerMeter
meterToPixelDouble(pixelsPerMeter, meter) == SMul(meter, pixelsPerMeter)

\* getX on doubles, had the offset been added after the scaling
getXDoubleOffsetInPixels(pixelsPerMeter, position) ==
  SAdd(meterToPixelDouble(pixelsPerMeter, position), Literal(3, 10))

\* getX on doubles: this.meterToPixel(position + 0.3)
getXDouble(pixelsPerMeter, position) ==
  meterToPixelDouble(pixelsPerMeter, SAdd(position, Literal(3, 10)))

\* getX, had it depended on the number of runs of generate()
getXDrifting(g, position) ==
  meterToPixel(g, position + LeadingOffset + g.generateRuns)

getX(g, position) == meterToPixel(g, position + LeadingOffset)

\* a drawing pass issuing these calls; canvas.passes is the history of the passes
\* run on the canvas
Draw(g, ops) ==
  [g EXCEPT !.canvas.ops = @ \o ops, !.canvas.passes = Append(@, ops[1].pass)]

RECURSIVE Concat(_)
Concat(ss) == IF ss = << >> THEN << >> ELSE Head(ss) \o Concat(Tail(ss))

\* canvas.width and canvas.height in pixel units
WidthOf(g) == g.canvas.width * Scale

HeightOf(g) == g.canvas.height * Scale

\* The k-th value Math.random() returns in a run of generate(), as a numerator
\* over RandomLevels; seed picks the stream.
RandomLevels == 16

Random(seed, k) == (seed * 31 * k + k * k + seed) % RandomLevels

drawBackground(g, seed) ==
  Draw(g,
       << Op("background", "fillRect", 0, 0, WidthOf(g), HeightOf(g), 0,
             colors.background, "base") >>
       \o [i \in 1..NumSpecks |->
             LET x    == (Random(seed, 3 * i - 2) * WidthOf(g)) \div RandomLevels
                 y    == (Random(seed, 3 * i - 1) * HeightOf(g)) \div RandomLevels
                 size == (Random(seed, 3 * i) * 2 * Scale) \div RandomLevels
                         + Scale \div 2
             IN  Op("background", "fillRect", x, y, size, size, 0,
                    "rgba(0, 0, 0, 0.1)", "speck")])

drawBorder(g) ==
  LET borderWidth == meterToPixel(g, 80)
      innerOffset == meterToPixel(g, 150)
  IN  Draw(g,
        << Op("border", "strokeRect", borderWidth \div 2, borderWidth \div 2,
              WidthOf(g) - borderWidth, HeightOf(g) - borderWidth, borderWidth,
              colors.border, "outer"),
           Op("border", "strokeRect", innerOffset, innerOffset,
              WidthOf(g) - innerOffset * 2, HeightOf(g) - innerOffset * 2, Scale,
              "rgba(201, 162, 39, 0.3)", "inner") >>)

MarkerSize == 800

QuietZone == 150

MarkerMargin == 200

\* the positions, had the second marker been put 0.1 m after the first
arucoPositionsCrowded == <<0, 1000, 18000, 24000>>

arucoPositions == <<0, 10000, 18000, 24000>>

\* the id of the marker on the top ("left") side at index i (from 0)
leftId(index) == index

\* the bottom side, had it taken the ids of the top side
rightIdReused(index) == index

\* the id of the marker on the bottom ("right") side at index i (from 0)
rightId(index) == index + 4

\* the bottom squares, had they been laid flush with the bottom edge
rightYFlush(g, totalSize, margin) == HeightOf(g) - totalSize

\* const rightY = this.canvas.height - totalSize - margin
rightY(g, totalSize, margin) == HeightOf(g) - totalSize - margin

drawArucoMarkers(g) ==
  LET size      == meterToPixel(g, MarkerSize)
      quietZone == meterToPixel(g, QuietZone)
      totalSize == size + quietZone * 2
      margin    == meterToPixel(g, MarkerMargin)
      leftY     == margin
      Slot(index, id, slotY, side) ==
        LET x == getX(g, arucoPositions[index + 1])
        IN  << Op("aruco", "fillRect", x - totalSize \div 2, slotY, totalSize,
                  totalSize, 0, colors.arucoWhite, [side |-> side, index |-> index]),
               Op("aruco", "drawImage", x - size \div 2, slotY + quietZone, size,
                  size, 0, "image",
                  [side |-> side, index |-> index, id |-> id,
                   marker |-> createArucoMarker(id, size, 0)]) >>
      Both(index) == Slot(index, leftId(index), leftY, "top")
                     \o Slot(index, rightId(index), rightY(g, totalSize, margin),
                             "bottom")
  IN  Draw(g, Concat([i \in 1..Len(arucoPositions) |-> Both(i - 1)]))

\* the metric unit nearest to a double position (the position a tick is drawn at,
\* its pixel column being carried exactly)
Units(pos) == MathRound(ExactMul(pos, Scale))

\* the most iterations of a tick loop the model follows
MaxTicks == 160

\* pos, pos + step, (pos + step) + step, ...: the first n values of a loop variable
RECURSIVE Span(_, _, _)
SpanJoin(a, step, n) == a \o Span(FAdd(a[Len(a)], step), step, n)

Span(pos, step, n) ==
  IF n = 1 THEN <<pos>> ELSE SpanJoin(Span(pos, step, n \div 2), step, n - n \div 2)

\* for (let pos = start; pos <= end; pos += step): the values pos takes in the body
ForLoop(start, end, step) ==
  SelectSeq(Span(start, step, MaxTicks), LAMBDA pos : FLe(pos, end))

\* the results of the body F in the iterations over s, in order
Each(s, F(_)) == [i \in 1..Len(s) |-> F(s[i])]

\* the flight-zone loop: each tick's position and whether (pos * 10) % 5 === 0
FlightTicks ==
  Each(ForLoop(DoubleOf(1, 10), DoubleOf(14, 10), DoubleOf(1, 10)),
       LAMBDA pos : [pos |-> Units(pos), major |-> FModIsZero(FMul(pos, 10), 5)])

drawTakeoffZoneScales(g) ==
  LET startX  == getX(g, 0)
      centerY == HeightOf(g) \div 2
      Tick(t) ==
        LET x      == getX(g, t.pos)
            height == IF t.major THEN meterToPixel(g, 2500)
                      ELSE meterToPixel(g, 1500)
        IN  Op("takeoff", "line", x, centerY - height \div 2, 0, height,
               meterToPixel(g, 20), colors.scaleYellow, t.pos)
  IN  Draw(g,
        << Op("takeoff", "line", startX, 0, 0, HeightOf(g), meterToPixel(g, 40),
              colors.scaleYellow, "origin") >>
        \o Each(FlightTicks, Tick))

\* the precision-zone loop: each tick's position and
\* cmValue = Math.round(pos * 100)
PrecisionTicks ==
  Each(ForLoop(DoubleOf(14, 10), DoubleOf(28, 10), DoubleOf(1, 100)),
       LAMBDA pos : [pos |-> Units(pos), cmValue |-> MathRound(FMul(pos, 100))])

\* the extension loop, for (let pos = 2.9; pos <= 3.0; pos += 0.1)
ExtensionTicks ==
  Each(ForLoop(DoubleOf(29, 10), DoubleOf(3, 1), DoubleOf(1, 10)), Units)

\* the tier chain tested from the finest rule up
TickTierFinestFirst(cmValue) ==
  IF cmValue % 10 # 0 THEN [height |-> 1200, lineWidth |-> 12]
  ELSE IF cmValue % 10 = 0 THEN [height |-> 2500, lineWidth |-> 20]
  ELSE IF cmValue % 50 = 0 THEN [height |-> 3500, lineWidth |-> 25]
  ELSE [height |-> 4500, lineWidth |-> 30]

\* the if / else-if chain on cmValue: the tick's height and line width, in metric
\* units
TickTier(cmValue) ==
  IF cmValue % 100 = 0 THEN [height |-> 4500, lineWidth |-> 30]
  ELSE IF cmValue % 50 = 0 THEN [height |-> 3500, lineWidth |-> 25]
  ELSE IF cmValue % 10 = 0 THEN [height |-> 2500, lineWidth |-> 20]
  ELSE [height |-> 1200, lineWidth |-> 12]

drawPrecisionZoneScales(g) ==
  LET centerY == HeightOf(g) \div 2
      Tick(t) ==
        LET x      == getX(g, t.pos)
            tier   == TickTier(t.cmValue)
            height == meterToPixel(g, tier.height)
        IN  Op("precision", "line", x, centerY - height \div 2, 0, height,
               meterToPixel(g, tier.lineWidth), colors.scaleFine,
               [cm |-> t.cmValue])
      Extension(pos) ==
        LET x      == getX(g, pos)
            height == meterToPixel(g, 2000)
        IN  Op("precision", "line", x, centerY - height \div 2, 0, height,
               meterToPixel(g, 20), colors.scaleFine, [extension |-> pos])
  IN  Draw(g, Each(PrecisionTicks, Tick) \o Each(ExtensionTicks, Extension))

\* a rotated text: fillText(label) after translate(x, y) and rotate(turn * PI / 4),
\* in a font of the given size
Text(pass, x, y, fontSize, weight, turn, label) ==
  Op(pass, "text", x, y, fontSize, 0, 0, weight, [label |-> label, turn |-> turn])

\* label.includes(ch), a label being its characters
Includes(label, ch) == \E i \in 1..Len(label) : label[i] = ch

keyLabels ==
  << [pos |-> 0,     label |-> <<"0">>],
     [pos |-> 5000,  label |-> <<"5", "0", "0", "m", "m">>],
     [pos |-> 10000, label |-> <<"1", "0", "0", "0", "m", "m">>],
     [pos |-> 15000, label |-> <<"1", ".", "5", "m">>],
     [pos |-> 16000, label |-> <<"1", ".", "6", "m">>],
     [pos |-> 17000, label |-> <<"1", ".", "7", "m">>],
     [pos |-> 18000, label |-> <<"1", ".", "8", "m">>],
     [pos |-> 19000, label |-> <<"1", ".", "9", "m">>],
     [pos |-> 20000, label |-> <<"2", ".", "0", "m">>],
     [pos |-> 21000, label |-> <<"2", ".", "1", "m">>],
     [pos |-> 22000, label |-> <<"2", ".", "2", "m">>],
     [pos |-> 23000, label |-> <<"2", ".", "3", "m">>],
     [pos |-> 24000, label |-> <<"2", ".", "4", "m">>],
     [pos |-> 25000, label |-> <<"2", ".", "5", "m">>],
     [pos |-> 26000, label |-> <<"2", ".", "6", "m">>],
     [pos |-> 27000, label |-> <<"2", ".", "7", "m">>],
     [pos |-> 28000, label |-> <<"2", ".", "8", "m">>],
     [pos |-> 29000, label |-> <<"2", ".", "9", "m">>],
     [pos |-> 30000, label |-> <<"3", ".", "0", "m">>] >>

drawSimplifiedLabels(g) ==
  Draw(g,
    << Text("simplifiedLabels", getX(g, -800), HeightOf(g) \div 2,
            meterToPixel(g, 350), "bold", 2, "0mm (takeoff line)"),
       Text("simplifiedLabels", getX(g, 13500), HeightOf(g) \div 2,
            meterToPixel(g, 300), "bold", 2, "1.4m (precision zone start)") >>
    \o [i \in 1..Len(keyLabels) |->
          LET item == keyLabels[i]
              big  == item.pos >= 15000 /\ Includes(item.label, "m")
          IN  Text("simplifiedLabels", getX(g, item.pos),
                   HeightOf(g) - meterToPixel(g, 400),
                   IF big THEN meterToPixel(g, 180) ELSE meterToPixel(g, 140),
                   IF big THEN "bold" ELSE "normal", -1, item.label)])

sparseLabels ==
  << [pos |-> 0,     label |-> "1cm/10cm"],
     [pos |-> 2000,  label |-> "200mm"],
     [pos |-> 4000,  label |-> "400mm"],
     [pos |-> 6000,  label |-> "600mm"],
     [pos |-> 8000,  label |-> "800mm"],
     [pos |-> 10000, label |-> "1000mm"] >>

\* for (let i = 1200; i <= 3000; i += 100): pos i / 1000, label i + 'mm'
precisionLabels == [k \in 1..19 |-> [pos |-> (1100 + 100 * k) * 10,
                                     label |-> <<1100 + 100 * k, "mm">>]]

\* the other labelling strategy; generate() does not call it
drawLabels(g) ==
  Draw(g,
    << Text("labels", getX(g, 0), HeightOf(g) - meterToPixel(g, 800),
            meterToPixel(g, 250), "bold", -2, "0mm (takeoff line)"),
       Text("labels", getX(g, 12000), HeightOf(g) - meterToPixel(g, 800),
            meterToPixel(g, 220), "bold", -2, "1200mm (precision zone start)") >>
    \o [i \in 1..Len(sparseLabels) |->
          Text("labels", getX(g, sparseLabels[i].pos),
               HeightOf(g) - meterToPixel(g, 350), meterToPixel(g, 180),
               "normal", -1, sparseLabels[i].label)]
    \o [i \in 1..Len(precisionLabels) |->
          Text("labels", getX(g, precisionLabels[i].pos),
               HeightOf(g) - meterToPixel(g, 350), meterToPixel(g, 140),
               "normal", -1, precisionLabels[i].label)])

\* F applied to the value of v: one statement running on the result of the
\* statements before it
Then(v, F(_)) == CHOOSE r \in {F(x) : x \in {v}} : TRUE

\* generate(), had it drawn the border after the markers
generateBorderLast(g, cid, seed) ==
  Then(Then(Then(Then(Then(Then(Then(initCanvas(g, cid),
    LAMBDA c : drawBackground(c, seed)),
    drawTakeoffZoneScales),
    drawPrecisionZoneScales),
    drawSimplifiedLabels),
    drawArucoMarkers),
    drawBorder),
    LAMBDA drawn : [drawn EXCEPT !.generateRuns = @ + 1])

\* generate(): a new canvas numbered cid, then the passes in their order
generate(g, cid, seed) ==
  Then(Then(Then(Then(Then(Then(Then(initCanvas(g, cid),
    LAMBDA c : drawBackground(c, seed)),
    drawTakeoffZoneScales),
    drawPrecisionZoneScales),
    drawSimplifiedLabels),
    drawBorder),
    drawArucoMarkers),
    LAMBDA drawn : [drawn EXCEPT !.generateRuns = @ + 1])

(***************************************************************************)
(* three.js objects.  heap.objects[i] is object number i; heap.canvases    *)
(* counts the canvas elements created so far.                              *)
(***************************************************************************)
Object(kind, image, map, geometry, material, width, height, x) ==
  [kind |-> kind, disposed |-> FALSE, image |-> image, map |-> map,
   geometry |-> geometry, material |-> material, width |-> width,
   height |-> height, x |-> x]

\* new THREE.CanvasTexture(canvas)
CanvasTexture(canvas) == Object("texture", canvas.id, 0, 0, 0, 0, 0, 0)

\* new THREE.PlaneGeometry(width, height), in metric units
PlaneGeometry(width, height) == Object("geometry", 0, 0, 0, 0, width, height, 0)

\* new THREE.MeshStandardMaterial({ map: texture, ... })
MeshStandardMaterial(texture) == Object("material", 0, texture, 0, 0, 0, 0, 0)

\* a mesh left where new THREE.Mesh puts it, centred on the world origin
MeshCentred(geometry, material, x) == Object("mesh", 0, 0, geometry, material, 0, 0, 0)

\* new THREE.Mesh(geometry, material), then mesh.position.set(x, 0, 0)
Mesh(geometry, material, x) == Object("mesh", 0, 0, geometry, material, 0, 0, x)

\* object.dispose() marks the object alone: a material's dispose() does not
\* dispose of its map
Dispose(heap, i) == [heap EXCEPT !.objects[i].disposed = TRUE]

\* A method call returns [gen, heap, surface, object]: the instance and the heap
\* after it, the number of the canvas it used and of the object it returns.
Result(g, heap, object) ==
  [gen |-> g, heap |-> heap, surface |-> g.canvas.id, object |-> object]

\* generate() called from outside: it always runs
Generate(g, heap, seed) ==
  Then(generate(g, heap.canvases + 1, seed),
       LAMBDA drawn : Result(drawn, [heap EXCEPT !.canvases = @ + 1], 0))

\* the guard left out: generate() runs on every call
GenerateAlways(g, heap, seed) ==
  Then(Generate(g, heap, seed), LAMBDA r : [r EXCEPT !.gen.lazyRuns = @ + 1])

\* if (!this.canvas) { this.generate(); }
GenerateIfMissing(g, heap, seed) ==
  IF IsNull(g.canvas)
  THEN Then(Generate(g, heap, seed), LAMBDA r : [r EXCEPT !.gen.lazyRuns = @ + 1])
  ELSE Result(g, heap, 0)

createTexture(g, heap, seed) ==
  Then(GenerateIfMissing(g, heap, seed),
       LAMBDA r :
         LET t == Len(r.heap.objects) + 1
         IN  Result([r.gen EXCEPT !.texture = t],
                    [r.heap EXCEPT !.objects = Append(@, CanvasTexture(r.gen.canvas))],
                    t))

createMesh(g, heap, seed) ==
  Then(createTexture(g, heap, seed),
       LAMBDA r :
         LET n == Len(r.heap.objects)
         IN  Result(r.gen,
                    [r.heap EXCEPT !.objects = @ \o
                       << PlaneGeometry(g.config.totalLength + LeadingOffset,
                                        g.config.totalWidth),
                          MeshStandardMaterial(r.object),
                          Mesh(n + 1, n + 2,
                               (g.config.totalLength + LeadingOffset) \div 2
                               - LeadingOffset) >>],
                    n + 3))

getDataURL(g, heap, seed) == GenerateIfMissing(g, heap, seed)

\* downloadImage(): a link whose href is getDataURL()
downloadImage(g, heap, seed) == getDataURL(g, heap, seed)

(***************************************************************************)
(* JumpMatViewer                                                           *)
(***************************************************************************)
ViewerPixelsPerMeter == 1000

\* the viewer after its constructor's field initialisers
NewViewer ==
  [matMesh |-> 0,
   matGenerator |-> MatGenerator(<< >>),
   hasGenerator |-> FALSE,
   scene |-> {},
   state |-> [showAruco |-> TRUE, showFineScale |-> TRUE,
              pixelsPerMeter |-> ViewerPixelsPerMeter]]

\* createMat()
createMat(v, heap, seed) ==
  Then(createMesh(MatGenerator([pixelsPerMeter |-> v.state.pixelsPerMeter]),
                  heap, seed),
       LAMBDA r :
         [viewer |-> [v EXCEPT !.matGenerator = r.gen, !.hasGenerator = TRUE,
                               !.matMesh = r.object, !.scene = @ \cup {r.object}],
          heap |-> r.heap])

\* regenerateMat(), had it left the old mesh in the scene
regenerateMatStacking(v, heap, seed) ==
  LET old   == v.matMesh
      freed == IF old # 0
               THEN Dispose(Dispose(heap, heap.objects[old].geometry),
                            heap.objects[old].material)
               ELSE heap
  IN  Then(createMesh(MatGenerator([pixelsPerMeter |-> v.state.pixelsPerMeter]),
                      freed, seed),
           LAMBDA r :
             [viewer |-> [v EXCEPT !.matGenerator = r.gen, !.hasGenerator = TRUE,
                                   !.matMesh = r.object,
                                   !.scene = @ \cup {r.object}],
              heap |-> r.heap])

\* regenerateMat(), had the raster left out the markers when showAruco is off
regenerateMatHonouring(v, heap, seed) ==
  LET old   == v.matMesh
      freed == IF old # 0
               THEN Dispose(Dispose(heap, heap.objects[old].geometry),
                            heap.objects[old].material)
               ELSE heap
  IN  Then(createMesh(MatGenerator([pixelsPerMeter |-> v.state.pixelsPerMeter]),
                      freed, seed),
           LAMBDA r :
             [viewer |-> [v EXCEPT !.matGenerator =
                                     [r.gen EXCEPT !.canvas.ops =
                                        SelectSeq(@, LAMBDA o : v.state.showAruco
                                                                \/ o.pass # "aruco")],
                                   !.hasGenerator = TRUE,
                                   !.matMesh = r.object,
                                   !.scene = (@ \ {old}) \cup {r.object}],
              heap |-> r.heap])

\* regenerateMat()
regenerateMat(v, heap, seed) ==
  LET old   == v.matMesh
      freed == IF old # 0
               THEN Dispose(Dispose(heap, heap.objects[old].geometry),
                            heap.objects[old].material)
               ELSE heap
  IN  Then(createMesh(MatGenerator([pixelsPerMeter |-> v.state.pixelsPerMeter]),
                      freed, seed),
           LAMBDA r :
             [viewer |-> [v EXCEPT !.matGenerator = r.gen, !.hasGenerator = TRUE,
                                   !.matMesh = r.object,
                                   !.scene = (@ \ {old}) \cup {r.object}],
              heap |-> r.heap])

(***************************************************************************)
(* The demo.  A coordinate of the person is recorded by where it was set:   *)
(* At(phase, progress) is the value the branch of that phase computes at    *)
(* that progress, Rest the value position.set(-0.15, 0, 0) gives.           *)
(* The camera and the blinking indicator are not part of the state.        *)
(***************************************************************************)
At(phase, progress) == [phase |-> phase, progress |-> progress]

Rest == At(-1, Literal(0, 1))

\* this.demoMode after the constructor, with the person's position, the demo
\* button and the number of pending setTimeout callbacks
NewDemo ==
  [demoMode |-> [active |-> FALSE, person |-> 0, tripod |-> 0,
                 animationPhase |-> 0, animationProgress |-> Literal(0, 1)],
   position |-> [x |-> Rest, y |-> Rest],
   button   |-> [text |-> "start demo", disabled |-> FALSE],
   timers   |-> 0]

createPerson == Object("person", 0, 0, 0, 0, 0, 0, 0)

createTripodWithPhone == Object("tripod", 0, 0, 0, 0, 0, 0, 0)

\* if (!this.demoMode.person) { ... this.scene.add(this.demoMode.person); }
EnsurePerson(w) ==
  IF w.demo.demoMode.person # 0 THEN w
  ELSE [w EXCEPT !.heap.objects = Append(@, createPerson),
                 !.demo.demoMode.person = Len(w.heap.objects) + 1,
                 !.demo.position = [x |-> Rest, y |-> Rest],
                 !.viewer.scene = @ \cup {Len(w.heap.objects) + 1}]

\* if (!this.demoMode.tripod) { ... this.scene.add(this.demoMode.tripod); }
EnsureTripod(w) ==
  IF w.demo.demoMode.tripod # 0 THEN w
  ELSE [w EXCEPT !.heap.objects = Append(@, createTripodWithPhone),
                 !.demo.demoMode.tripod = Len(w.heap.objects) + 1,
                 !.viewer.scene = @ \cup {Len(w.heap.objects) + 1}]

\* startDemo() without its first line: a running demo is started again
startDemoRestarting(v, d, heap) ==
  [EnsureTripod(EnsurePerson([viewer |-> v, demo |-> d, heap |-> heap]))
     EXCEPT !.demo.demoMode.active = TRUE,
            !.demo.demoMode.animationPhase = 0,
            !.demo.demoMode.animationProgress = Literal(0, 1),
            !.demo.button = [text |-> "demo running", disabled |-> TRUE]]

\* startDemo(): the viewer, the demo and the heap after the call
startDemo(v, d, heap) ==
  IF d.demoMode.active THEN [viewer |-> v, demo |-> d, heap |-> heap]
  ELSE [EnsureTripod(EnsurePerson([viewer |-> v, demo |-> d, heap |-> heap]))
          EXCEPT !.demo.demoMode.active = TRUE,
                 !.demo.demoMode.animationPhase = 0,
                 !.demo.demoMode.animationProgress = Literal(0, 1),
                 !.demo.button = [text |-> "demo running", disabled |-> TRUE]]

\* resetDemo()
resetDemo(v, d, heap) ==
  [viewer |-> [v EXCEPT !.scene = @ \ ({d.demoMode.person, d.demoMode.tripod} \ {0})],
   demo   |-> [d EXCEPT !.demoMode.active = FALSE,
                        !.demoMode.animationPhase = 0,
                        !.demoMode.animationProgress = Literal(0, 1),
                        !.demoMode.person = 0,
                        !.demoMode.tripod = 0,
                        !.position = [x |-> Rest, y |-> Rest],
                        !.button = [text |-> "start demo", disabled |-> FALSE]],
   heap   |-> heap]

\* the end of the landing phase: the reset is scheduled, the demo is over
FinishDemo(d) ==
  [d EXCEPT !.timers = @ + 1,
            !.demoMode.active = FALSE,
            !.button = [text |-> "demo again", disabled |-> FALSE]]

\* one case of the switch: below the limit the person is moved (in x only in
\* the take-off and flight phases), at the limit the phase ends
PhaseStep(d, progress, limit, movesX, next) ==
  IF SLess(progress, limit)
  THEN [d EXCEPT !.demoMode.animationProgress = progress,
                 !.position.x = IF movesX THEN At(d.demoMode.animationPhase, progress)
                                ELSE @,
                 !.position.y = At(d.demoMode.animationPhase, progress)]
  ELSE IF next = 0
       THEN FinishDemo([d EXCEPT !.demoMode.animationProgress = progress])
       ELSE [d EXCEPT !.demoMode.animationPhase = next,
                      !.demoMode.animationProgress = Literal(0, 1)]

\* updateDemoAnimation()
updateDemoAnimation(d) ==
  IF ~d.demoMode.active \/ d.demoMode.person = 0 THEN d
  ELSE Then(SAdd(d.demoMode.animationProgress, Literal(15, 1000)),
            LAMBDA progress :
              CASE d.demoMode.animationPhase = 0 ->
                     PhaseStep(d, progress, Literal(1, 1), FALSE, 1)
                [] d.demoMode.animationPhase = 1 ->
                     PhaseStep(d, progress, Literal(3, 10), TRUE, 2)
                [] d.demoMode.animationPhase = 2 ->
                     PhaseStep(d, progress, Literal(1, 1), TRUE, 3)
                [] d.demoMode.animationPhase = 3 ->
                     PhaseStep(d, progress, Literal(5, 10), FALSE, 0)
                [] OTHER -> [d EXCEPT !.demoMode.animationProgress = progress])

\* the callback given to setTimeout at the end of the landing phase
resetCallback(d) ==
  [d EXCEPT !.timers = @ - 1,
            !.demoMode.animationPhase = 0,
            !.demoMode.animationProgress = Literal(0, 1),
            !.position = IF d.demoMode.person # 0 THEN [x |-> Rest, y |-> Rest]
                         ELSE @]

(***************************************************************************)
(* State                                                                   *)
(***************************************************************************)
VARIABLES
  gen,       \* a MatGenerator instance used directly
  viewer,    \* the JumpMatViewer
  heap,      \* the canvases and three.js objects created so far
  lastCall,  \* the last call made and what it returned
  marker,    \* the last call of createArucoMarker and its result
  transform, \* the last pair of positions mapped to pixel columns
  demo       \* the demo: demoMode, the person's position, the button, the timers

vars == <<gen, viewer, heap, lastCall, marker, transform, demo>>

\* Bounds
MaxSeed == 2

MaxCanvases == 2

MaxObjects == 4

MaxId == 25

MaxRegenerations == 10

MaxTimers == 1

MaxPeople == 2

Seeds == 1..MaxSeed

\* pixel densities given to the constructor: 0 and a negative one, two at which
\* 3.3 * ppm and 0.9 * ppm are not integers, the viewer's and the default
PixelDensities == {-1200, 0, 15, 25, ViewerPixelsPerMeter, DefaultPixelsPerMeter}

\* a configuration whose zone boundaries are not monotonic
BadZones == << <<-3000, 0>>, <<14000, 0>>, <<14000, 28000>>, <<28000, 30000>> >>

Options ==
  {<< >>} \cup {[pixelsPerMeter |-> p] : p \in PixelDensities}
  \cup {[zones |-> BadZones], [fineSpacing |-> 0], [fineSpacing |-> -FineSpacing]}

MaxTenths == 14

\* positions in tenths of a metre, from the leading edge at -0.3 m
Tenths == -3..MaxTenths

NoTransform ==
  [called |-> FALSE, pixelsPerMeter |-> DefaultPixelsPerMeter, p1 |-> 0, p2 |-> 0,
   x1 |-> Literal(0, 10), x2 |-> Literal(0, 10), d |-> Literal(0, 10)]

NoCall == [op |-> "none", surface |-> 0, object |-> 0]

NoMarker == [called |-> FALSE, id |-> 0, size |-> 0, borderSize |-> 0,
             result |-> createArucoMarker(0, 0, 0)]

(***************************************************************************)
(* One MatGenerator, constructed with any options and then used through    *)
(* its public methods, in any order.                                       *)
(***************************************************************************)
Init ==
  /\ gen \in {MatGenerator(o) : o \in Options}
  /\ viewer = NewViewer
  /\ heap = [canvases |-> 0, objects |-> << >>]
  /\ lastCall = NoCall
  /\ marker = NoMarker
  /\ transform = NoTransform
  /\ demo = NewDemo

Called(op, r) ==
  /\ gen' = r.gen
  /\ heap' = r.heap
  /\ lastCall' = [op |-> op, surface |-> r.surface, object |-> r.object]
  /\ UNCHANGED <<viewer, marker, transform, demo>>

\* the bounds leave room for the canvas a call on g creates if g has none and
\* for the n objects it creates
HasRoom(g, n) ==
  /\ IsNull(g.canvas) => heap.canvases < MaxCanvases
  /\ Len(heap.objects) + n <= MaxObjects

CallGenerate ==
  \E seed \in Seeds :
    /\ heap.canvases < MaxCanvases
    /\ \E r \in {Generate(gen, heap, seed)} : Called("generate", r)

CallCreateTexture ==
  \E seed \in Seeds :
    /\ HasRoom(gen, 1)
    /\ \E r \in {createTexture(gen, heap, seed)} : Called("createTexture", r)

CallCreateMesh ==
  \E seed \in Seeds :
    /\ HasRoom(gen, 3)
    /\ \E r \in {createMesh(gen, heap, seed)} : Called("createMesh", r)

CallGetDataURL ==
  \E seed \in Seeds :
    /\ HasRoom(gen, 0)
    /\ \E r \in {getDataURL(gen, heap, seed)} : Called("getDataURL", r)

CallDownloadImage ==
  \E seed \in Seeds :
    /\ HasRoom(gen, 0)
    /\ \E r \in {downloadImage(gen, heap, seed)} : Called("downloadImage", r)

Next ==
  \/ CallGenerate
  \/ CallCreateTexture
  \/ CallCreateMesh
  \/ CallGetDataURL
  \/ CallDownloadImage

Spec == Init /\ [][Next]_vars

(***************************************************************************)
(* Properties of the generator                                             *)
(***************************************************************************)
Generated == ~IsNull(gen.canvas)

ReferenceConfig ==
  /\ gen.config.totalLength = TotalLength
  /\ gen.config.totalWidth = TotalWidth
  /\ gen.config.zones = MAT_CONFIG.zones
  /\ gen.config.fineSpacing = FineSpacing

\* the drawImage calls of a canvas: the marker placements
Placements(canvas) == SelectSeq(canvas.ops, LAMBDA o : o.kind = "drawImage")

PlacedIds(canvas, side) ==
  {Placements(canvas)[i].tag.id :
     i \in {j \in 1..Len(Placements(canvas)) : Placements(canvas)[j].tag.side = side}}

PlacedAt(canvas, side) ==
  {arucoPositions[Placements(canvas)[i].tag.index + 1] :
     i \in {j \in 1..Len(Placements(canvas)) : Placements(canvas)[j].tag.side = side}}

\* C1: with the reference configuration at 1200 px/m, a generated surface holds
\* exactly 8 marker placements, at 0, 1.0, 1.8 and 2.4 m on each of the two sides,
\* one side carrying the ids {8,9,10,11} and the other the ids {0,1,2,3}.
C1_MarkerIds ==
  (Generated /\ ReferenceConfig /\ gen.pixelsPerMeter = 1200) =>
    /\ Len(Placements(gen.canvas)) = 8
    /\ PlacedAt(gen.canvas, "top") = {0, 10000, 18000, 24000}
    /\ PlacedAt(gen.canvas, "bottom") = {0, 10000, 18000, 24000}
    /\ {PlacedIds(gen.canvas, "top"), PlacedIds(gen.canvas, "bottom")}
         = {8..11, 0..3}

\* the ids of all placements of a canvas
AllPlacedIds(canvas) == PlacedIds(canvas, "top") \cup PlacedIds(canvas, "bottom")

\* C12: on a generated surface the ids of the top side and those of the bottom
\* side are disjoint, the 8 placements carry 8 different ids, and these ids,
\* reduced modulo the dictionary size, select 8 different patterns.
C12_DisjointIds ==
  Generated =>
    /\ PlacedIds(gen.canvas, "top") \cap PlacedIds(gen.canvas, "bottom") = {}
    /\ Len(Placements(gen.canvas)) = 8
    /\ Cardinality(AllPlacedIds(gen.canvas)) = 8
    /\ Cardinality({PatternIndex(id) : id \in AllPlacedIds(gen.canvas)}) = 8
    /\ Cardinality({DictAt(PatternIndex(id)) : id \in AllPlacedIds(gen.canvas)}) = 8

C12_Witness ==
  /\ Generated
  /\ PlacedIds(gen.canvas, "top") = 0..3
  /\ PlacedIds(gen.canvas, "bottom") = 4..7

\* the quiet-zone squares the marker pass fills on one side, in drawing order
Squares(canvas, side) ==
  SelectSeq(canvas.ops,
            LAMBDA o : o.pass = "aruco" /\ o.kind = "fillRect" /\ o.tag.side = side)

\* C13: at any pixelsPerMeter > 0, on each side, every quiet-zone square has the
\* side 0.08 m + 2 * 0.015 m and is centred on the pixel column of its position,
\* and the square of a position ends at or before the column where the square of
\* the next position begins.
C13_FootprintsApart ==
  (Generated /\ gen.pixelsPerMeter > 0) =>
    \A side \in {"top", "bottom"} :
      LET sq == Squares(gen.canvas, side)
      IN  /\ Len(sq) = Len(arucoPositions)
          /\ \A i \in 1..Len(sq) :
               /\ sq[i].w = meterToPixel(gen, MarkerSize + 2 * QuietZone)
               /\ 2 * sq[i].x + sq[i].w = 2 * getX(gen, arucoPositions[i])
          /\ \A i \in 1..(Len(sq) - 1) : sq[i].x + sq[i].w <= sq[i + 1].x

C13_Witness ==
  /\ Generated
  /\ gen.pixelsPerMeter = 15
  /\ Len(Squares(gen.canvas, "top")) = 4
  /\ Squares(gen.canvas, "top")[4].x
       - (Squares(gen.canvas, "top")[3].x + Squares(gen.canvas, "top")[3].w)
     = meterToPixel(gen, 6000 - (MarkerSize + 2 * QuietZone))

\* the mesh the last call of createMesh returned, and its geometry
BuiltMesh == heap.objects[lastCall.object]

BuiltGeometry == heap.objects[BuiltMesh.geometry]

\* C16: the mesh createMesh builds has a geometry of (totalLength + 0.3) by
\* totalWidth and lies so that it spans x from -0.3 to totalLength: the origin
\* line, 0.3 m from the leading edge, is at world x = 0.
C16_MeshSpan ==
  lastCall.op = "createMesh" =>
    /\ BuiltMesh.kind = "mesh"
    /\ BuiltGeometry.kind = "geometry"
    /\ BuiltGeometry.width = gen.config.totalLength + LeadingOffset
    /\ BuiltGeometry.height = gen.config.totalWidth
    /\ 2 * BuiltMesh.x - BuiltGeometry.width = -2 * LeadingOffset
    /\ 2 * BuiltMesh.x + BuiltGeometry.width = 2 * gen.config.totalLength

C16_Witness ==
  /\ lastCall.op = "createMesh"
  /\ BuiltGeometry.width = TotalLength + LeadingOffset
  /\ BuiltGeometry.height = TotalWidth
  /\ 2 * BuiltMesh.x = TotalLength - LeadingOffset

\* the rectangles the marker pass paints: quiet-zone squares and markers
Patches(canvas) ==
  SelectSeq(canvas.ops, LAMBDA o : o.pass = "aruco" /\ o.kind \in {"fillRect", "drawImage"})

\* the strokes of the tick passes: the origin line and every tick
Strokes(canvas) ==
  SelectSeq(canvas.ops, LAMBDA o : o.pass \in {"takeoff", "precision"} /\ o.kind = "line")

\* a rectangle and a stroke (a vertical line of width lw about its column)
\* share some area
Covers(rect, stroke) ==
  /\ 2 * rect.x < 2 * stroke.x + stroke.lw
  /\ 2 * stroke.x - stroke.lw < 2 * (rect.x + rect.w)
  /\ rect.y < stroke.y + stroke.h
  /\ stroke.y < rect.y + rect.h

\* C17: no quiet-zone square and no marker of the marker pass covers any part
\* of the origin line or of a flight-zone, precision-zone or extension tick.
C17_TicksUncovered ==
  (Generated /\ gen.pixelsPerMeter > 0) =>
    \A i \in 1..Len(Patches(gen.canvas)), j \in 1..Len(Strokes(gen.canvas)) :
      ~Covers(Patches(gen.canvas)[i], Strokes(gen.canvas)[j])

\* C18: at any pixelsPerMeter > 0 the marker pass issues, for each of its 8
\* slots, a fillRect of a light square of side core + 2 * quietZone and then a
\* drawImage of the patch createArucoMarker(id, core, 0) at side core, inset by
\* quietZone from the square on all four sides; the top squares begin the margin
\* of 0.02 m below the top edge and the bottom squares end the margin above the
\* bottom edge of the canvas.
C18_SlotLayout ==
  (Generated /\ gen.pixelsPerMeter > 0) =>
    LET ops       == Patches(gen.canvas)
        size      == meterToPixel(gen, MarkerSize)
        quietZone == meterToPixel(gen, QuietZone)
        margin    == meterToPixel(gen, MarkerMargin)
    IN  /\ Len(ops) = 2 * 2 * Len(arucoPositions)
        /\ \A side \in {"top", "bottom"} :
             Cardinality({k \in 1..Len(ops) : ops[k].tag.side = side})
               = 2 * Len(arucoPositions)
        /\ \A k \in 1..(Len(ops) \div 2) :
             LET square == ops[2 * k - 1]
                 patch  == ops[2 * k]
             IN  /\ square.kind = "fillRect"
                 /\ square.style = colors.arucoWhite
                 /\ square.w = size + 2 * quietZone
                 /\ square.h = square.w
                 /\ patch.kind = "drawImage"
                 /\ patch.tag.side = square.tag.side
                 /\ patch.tag.marker = createArucoMarker(patch.tag.id, size, 0)
                 /\ patch.w = size
                 /\ patch.h = size
                 /\ patch.x - square.x = quietZone
                 /\ patch.y - square.y = quietZone
                 /\ (square.x + square.w) - (patch.x + patch.w) = quietZone
                 /\ (square.y + square.h) - (patch.y + patch.h) = quietZone
                 /\ square.tag.side = "top" => square.y = margin
                 /\ square.tag.side = "bottom" =>
                      square.y + square.h = HeightOf(gen) - margin

C18_Witness ==
  /\ Generated
  /\ gen.pixelsPerMeter = DefaultPixelsPerMeter
  /\ Len(Patches(gen.canvas)) = 16
  /\ Patches(gen.canvas)[16].kind = "drawImage"
  /\ Patches(gen.canvas)[16].tag.side = "bottom"
  /\ Patches(gen.canvas)[16].w = 96 * Scale
  /\ Patches(gen.canvas)[16].x - Patches(gen.canvas)[15].x = 18 * Scale
  /\ Patches(gen.canvas)[15].y + Patches(gen.canvas)[15].h = (1080 - 24) * Scale

\* the ticks of the flight-zone pass: its strokes after the origin line
FlightStrokes(canvas) == Tail(SelectSeq(canvas.ops, LAMBDA o : o.pass = "takeoff"))

\* C19: the flight-zone pass draws 14 ticks, the k-th at k * 0.1 m, the ticks at
\* 0.5 m and 1.0 m 0.25 m tall and all the others 0.15 m tall.
C19_FlightTicks ==
  (Generated /\ gen.pixelsPerMeter > 0) =>
    LET ticks == FlightStrokes(gen.canvas)
    IN  /\ Len(ticks) = 14
        /\ \A k \in 1..Len(ticks) :
             /\ ticks[k].kind = "line"
             /\ ticks[k].x = getX(gen, k * 1000)
             /\ ticks[k].h = IF k % 5 = 0 THEN meterToPixel(gen, 2500)
                             ELSE meterToPixel(gen, 1500)

PassOrder ==
  <<"background", "takeoff", "precision", "simplifiedLabels", "border", "aruco">>

\* the position of a pass in PassOrder, 0 for a pass that is not in it
PassRank(pass) ==
  IF \E k \in 1..Len(PassOrder) : PassOrder[k] = pass
  THEN CHOOSE k \in 1..Len(PassOrder) : PassOrder[k] = pass
  ELSE 0

\* C2: on a generated surface exactly the six passes background, flight-zone
\* ticks (with the origin line), precision-zone ticks, simplified labels, border
\* and markers have run, each once and in this order, every drawing call on the
\* surface belongs to one of them and follows the calls of the earlier passes
\* (so no drawLabels call and nothing after the marker pass), and the surface
\* generate() returns is that completed surface, freshly allocated.
C2_PassOrder ==
  Generated =>
    LET ops == gen.canvas.ops
    IN  /\ gen.canvas.passes = PassOrder
        /\ \A i \in 1..Len(ops) : PassRank(ops[i].pass) # 0
        /\ \A i \in 1..(Len(ops) - 1) :
             PassRank(ops[i].pass) <= PassRank(ops[i + 1].pass)
        /\ \A k \in 1..Len(PassOrder) :
             \E i \in 1..Len(ops) : ops[i].pass = PassOrder[k]
        /\ ops[1].tag = "base"
        /\ \E i \in 1..Len(ops) : ops[i].pass = "takeoff" /\ ops[i].tag = "origin"
        /\ ops[Len(ops)].kind = "drawImage"
        /\ lastCall.op = "generate" =>
             lastCall.surface = gen.canvas.id /\ gen.canvas.id = heap.canvases

C2_Witness ==
  /\ lastCall.op = "generate"
  /\ gen.generateRuns = 1
  /\ gen.canvas.ops[Len(gen.canvas.ops)].pass = "aruco"

\* the integer part of a non-negative quantity of pixel units
Trunc(units) == units \div Scale

\* a non-negative quantity of pixel units rounded to the nearest pixel
Rounded(units) == (2 * units + Scale) \div (2 * Scale)

CmTicks(canvas) ==
  SelectSeq(canvas.ops,
            LAMBDA o : o.pass = "precision" /\ "cm" \in DOMAIN o.tag)

\* a tick drawn with this length and line width (in metric units)
HasTier(o, length, width) ==
  /\ o.h = meterToPixel(gen, length)
  /\ o.lw = meterToPixel(gen, width)

Malformed(config) ==
  \/ \E i \in 1..Len(config.zones) : config.zones[i][1] >= config.zones[i][2]
  \/ \E i \in 1..(Len(config.zones) - 1) :
       config.zones[i][2] > config.zones[i + 1][1]
  \/ config.fineSpacing <= 0
  \/ "pixelsPerMeter" \in DOMAIN config /\ config.pixelsPerMeter <= 0

\* C7: when the configuration is malformed, generate() is refused before any
\* drawing pass runs: the instance is left without a surface and no pass has
\* drawn.
C7_MalformedRejected ==
  (Malformed(gen.config) /\ lastCall.op = "generate") =>
    IsNull(gen.canvas) /\ gen.canvas.ops = << >> /\ gen.generateRuns = 0

LazyCalls == {"getDataURL", "createTexture", "createMesh", "downloadImage"}

\* C8: a call of getDataURL, createTexture, createMesh or downloadImage runs
\* generate() if and only if the instance has no surface, keeps an existing
\* surface as it is and uses the instance's surface (a texture is made of it);
\* so these calls run generate() at most once on an instance.
C8_LazyMemoized ==
  [][lastCall'.op \in LazyCalls =>
       /\ gen'.generateRuns = gen.generateRuns + (IF IsNull(gen.canvas) THEN 1 ELSE 0)
       /\ ~IsNull(gen.canvas) => gen'.canvas = gen.canvas
       /\ ~IsNull(gen'.canvas)
       /\ lastCall'.surface = gen'.canvas.id
       /\ lastCall'.op \in {"createTexture", "createMesh"} =>
            heap'.objects[gen'.texture].image = gen'.canvas.id
       /\ gen'.lazyRuns <= 1]_vars

C8_Witness ==
  /\ lastCall.op = "downloadImage"
  /\ gen.lazyRuns = 1
  /\ gen.generateRuns = 1
  /\ gen.texture # 0

\* the drawing calls of every pass but the background pass
NonBackground(canvas) == SelectSeq(canvas.ops, LAMBDA o : o.pass # "background")

\* C10: a run of generate() on an instance that already has a surface produces a
\* surface of the same size whose drawing calls, the background pass aside, are
\* the same calls at the same positions.
C10_Idempotent ==
  [][(lastCall'.op = "generate" /\ ~IsNull(gen.canvas)) =>
       /\ gen'.canvas.width = gen.canvas.width
       /\ gen'.canvas.height = gen.canvas.height
       /\ gen'.canvas.passes = gen.canvas.passes
       /\ NonBackground(gen'.canvas) = NonBackground(gen.canvas)]_vars

C10_Witness ==
  /\ lastCall.op = "generate"
  /\ gen.generateRuns = 2
  /\ gen.canvas.id = 2

(***************************************************************************)
(* createArucoMarker called with any integer id, above the dictionary      *)
(* range, inside it or below it.                                           *)
(***************************************************************************)
MarkerIds == -MaxId..MaxId

\* core sizes, in pixel units: 6 px, the default 128 px and the 96 px that
\* drawArucoMarkers asks for at 1200 px/m
MarkerSizes == {6 * Scale, 96 * Scale, 128 * Scale}

\* quiet-zone widths: none and the default 16 px
BorderSizes == {0, 16 * Scale}

InitAruco ==
  /\ gen = MatGenerator(<< >>)
  /\ viewer = NewViewer
  /\ heap = [canvases |-> 0, objects |-> << >>]
  /\ lastCall = NoCall
  /\ marker = NoMarker
  /\ transform = NoTransform
  /\ demo = NewDemo

CreateMarker ==
  \E id \in MarkerIds, size \in MarkerSizes, borderSize \in BorderSizes :
    /\ marker' = [called |-> TRUE, id |-> id, size |-> size,
                  borderSize |-> borderSize,
                  result |-> createArucoMarker(id, size, borderSize)]
    /\ UNCHANGED <<gen, viewer, heap, lastCall, transform, demo>>

NextAruco == CreateMarker

SpecAruco == InitAruco /\ [][NextAruco]_vars

\* C3: for every id and core size S, createArucoMarker(id, S, 0) and
\* createArucoMarker(id + 12, S, 0) select the same dictionary pattern and both
\* return a patch, the two patches being identical.
C3_WrapAround ==
  (marker.called /\ marker.borderSize = 0) =>
    LET other == createArucoMarker(marker.id + Len(ARUCO_DICT_4X4_50),
                                   marker.size, 0)
    IN  /\ PatternIndex(marker.id) = PatternIndex(marker.id + Len(ARUCO_DICT_4X4_50))
        /\ marker.result.error = "none"
        /\ other.error = "none"
        /\ other.canvas = marker.result.canvas
        /\ marker.size = 6 * Scale =>
             Raster(other.canvas) = Raster(marker.result.canvas)

\* C4: createArucoMarker returns a patch, without an error, for every integer
\* id, the id being reduced to a dictionary index in 0..11.
C4_NeverFails ==
  marker.called =>
    /\ marker.result.error = "none"
    /\ InDict(PatternIndex(marker.id))

\* a 4x4 matrix turned by 90 degrees clockwise
Rotate(m) == [r \in 1..4 |-> [c \in 1..4 |-> m[5 - c][r]]]

\* a matrix and its turns by 90, 180 and 270 degrees
Rotations(m) == {m, Rotate(m), Rotate(Rotate(m)), Rotate(Rotate(Rotate(m)))}

\* C14: the dictionary has 12 entries; the pattern a marker is drawn from is a
\* 4x4 matrix of values in {0,1}, and no entry of another index equals it or one
\* of its turns by 90, 180 or 270 degrees.
C14_RotationUnique ==
  (marker.called /\ marker.result.error = "none") =>
    LET index   == PatternIndex(marker.id)
        pattern == DictAt(index)
    IN  /\ Len(ARUCO_DICT_4X4_50) = 12
        /\ Len(pattern) = 4
        /\ \A r \in 1..4 : Len(pattern[r]) = 4 /\ \A c \in 1..4 : pattern[r][c] \in {0, 1}
        /\ \A other \in 0..(Len(ARUCO_DICT_4X4_50) - 1) :
             other # index => DictAt(other) \notin Rotations(pattern)

C14_Witness ==
  /\ marker.called
  /\ marker.result.error = "none"
  /\ PatternIndex(marker.id) = 11
  /\ Rotate(DictAt(11)) # DictAt(11)

\* the colour at the point (x, y) of a canvas, in sixths of a pixel unit: that of
\* the last rectangle drawn over the point
ColourAt(canvas, x, y) ==
  LET hits == {i \in 1..Len(canvas.ops) :
                 /\ canvas.ops[i].x <= x /\ x < canvas.ops[i].x + canvas.ops[i].w
                 /\ canvas.ops[i].y <= y /\ y < canvas.ops[i].y + canvas.ops[i].h}
  IN  IF hits = {} THEN "transparent"
      ELSE canvas.ops[CHOOSE i \in hits : \A j \in hits : j <= i].style

\* the lines that bound the rings and the cells of a patch, on either axis, in
\* sixths of a pixel unit: edge of the patch, edge of the core, the 5 cell
\* boundaries inside the core, far edge of the core, far edge of the patch
RingLines(size, borderSize) ==
  <<0>> \o [k \in 1..7 |-> 6 * borderSize + (k - 1) * size]
        \o <<6 * size + 12 * borderSize>>

\* the colour the claim gives the region in column band i and row band j (bands
\* 1 and 8 are the quiet ring, 2 and 7 the dark ring, 3..6 the data cells)
ExpectedColour(pattern, i, j) ==
  IF i \in {1, 8} \/ j \in {1, 8} THEN "#FFFFFF"
  ELSE IF i \in {2, 7} \/ j \in {2, 7} THEN "#000000"
  ELSE IF pattern[j - 2][i - 2] = 1 THEN "#000000" ELSE "#FFFFFF"

\* C11: a patch returned by createArucoMarker(id, size, borderSize) is a square of
\* side size + 2 * borderSize; every rectangle drawn on it has its edges on the
\* ring and cell boundaries, and between those boundaries the patch is light in
\* the outer ring of width borderSize, dark in the next ring of width size / 6,
\* and in the 4x4 grid cell (row, col) is dark exactly when pattern[row][col] = 1,
\* row counting downwards and col to the right.
C11_PatchLayout ==
  (marker.called /\ marker.result.error = "none") =>
    LET canvas  == marker.result.canvas
        L       == RingLines(marker.size, marker.borderSize)
        pattern == DictAt(PatternIndex(marker.id))
    IN  /\ canvas.width * Scale = marker.size + 2 * marker.borderSize
        /\ canvas.height = canvas.width
        /\ \A k \in 1..Len(canvas.ops) :
             /\ \E a \in 1..9 : L[a] = canvas.ops[k].x
             /\ \E a \in 1..9 : L[a] = canvas.ops[k].x + canvas.ops[k].w
             /\ \E a \in 1..9 : L[a] = canvas.ops[k].y
             /\ \E a \in 1..9 : L[a] = canvas.ops[k].y + canvas.ops[k].h
        /\ \A i, j \in 1..8 :
             (L[i] < L[i + 1] /\ L[j] < L[j + 1]) =>
               ColourAt(canvas, L[i], L[j]) = ExpectedColour(pattern, i, j)

C11_Witness ==
  /\ marker.called
  /\ marker.result.error = "none"
  /\ marker.id = 8
  /\ marker.size = 96 * Scale
  /\ marker.borderSize = 16 * Scale
  /\ ColourAt(marker.result.canvas, 0, 0) = "#FFFFFF"
  /\ ColourAt(marker.result.canvas, 6 * marker.borderSize, 6 * marker.borderSize)
       = "#000000"

(***************************************************************************)
(* The coordinate transform, applied to pairs of positions at several      *)
(* pixel densities, on the doubles the program computes with.              *)
(***************************************************************************)
InitTransform ==
  /\ gen = MatGenerator(<< >>)
  /\ viewer = NewViewer
  /\ heap = [canvases |-> 0, objects |-> << >>]
  /\ lastCall = NoCall
  /\ marker = NoMarker
  /\ \E p1 \in Tenths, p2 \in Tenths,
        ppm \in {15, ViewerPixelsPerMeter, DefaultPixelsPerMeter} :
       transform = [NoTransform EXCEPT !.pixelsPerMeter = ppm, !.p1 = p1, !.p2 = p2]
  /\ demo = NewDemo

\* getX(p1), getX(p2) and meterToPixel(p2 - p1) for the chosen positions
MapPositions ==
  /\ transform' =
       [transform EXCEPT
          !.called = TRUE,
          !.x1 = getXDouble(transform.pixelsPerMeter, Literal(transform.p1, 10)),
          !.x2 = getXDouble(transform.pixelsPerMeter, Literal(transform.p2, 10)),
          !.d  = meterToPixelDouble(transform.pixelsPerMeter,
                                    SSub(Literal(transform.p2, 10),
                                         Literal(transform.p1, 10)))]
  /\ UNCHANGED <<gen, viewer, heap, lastCall, marker, demo>>

NextTransform == MapPositions

SpecTransform == InitTransform /\ [][NextTransform]_vars

\* two doubles less than 10^-9 apart
Close(a, b) == Floor(ExactMul(SDistance(a, b), 10 ^ 9)) = 0

\* C15 (as stated): getX(p2) - getX(p1) equals meterToPixel(p2 - p1).
C15_AffineExact ==
  transform.called => SSub(transform.x2, transform.x1) = transform.d

\* C15 (amended): getX(p) is meterToPixel(p + 0.3), negative positions included,
\* and getX(p2) - getX(p1) equals meterToPixel(p2 - p1) up to the rounding of the
\* double operations: the two are less than 10^-9 pixel apart.
C15_AffineWithinRounding ==
  transform.called =>
    /\ transform.x1 = meterToPixelDouble(transform.pixelsPerMeter,
                        SAdd(Literal(transform.p1, 10), Literal(3, 10)))
    /\ transform.x2 = meterToPixelDouble(transform.pixelsPerMeter,
                        SAdd(Literal(transform.p2, 10), Literal(3, 10)))
    /\ Close(SSub(transform.x2, transform.x1), transform.d)

C15_Witness ==
  /\ transform.called
  /\ transform.pixelsPerMeter = 15
  /\ transform.p1 = -2
  /\ transform.p2 = 0
  /\ SSub(transform.x2, transform.x1) # transform.d
  /\ Close(SSub(transform.x2, transform.x1), transform.d)

(***************************************************************************)
(* The viewer: new JumpMatViewer() runs init(), which runs createMat();    *)
(* then the user clicks the toggles and the download button in any order.  *)
(***************************************************************************)
InitViewer ==
  /\ gen = MatGenerator(<< >>)
  /\ \E seed \in Seeds :
       \E r \in {createMat(NewViewer, [canvases |-> 0, objects |-> << >>], seed)} :
         viewer = r.viewer /\ heap = r.heap
  /\ lastCall = NoCall
  /\ marker = NoMarker
  /\ transform = NoTransform
  /\ demo = NewDemo

Regenerated(op, r) ==
  /\ viewer' = r.viewer
  /\ heap' = r.heap
  /\ lastCall' = [op |-> op, surface |-> r.viewer.matGenerator.canvas.id,
                  object |-> r.viewer.matMesh]
  /\ UNCHANGED <<gen, marker, transform, demo>>

\* click on #toggle-aruco
ToggleAruco ==
  \E seed \in Seeds :
    /\ heap.canvases <= MaxRegenerations
    /\ \E r \in {regenerateMat([viewer EXCEPT !.state.showAruco = ~@], heap, seed)} :
         Regenerated("toggleAruco", r)

\* click on #toggle-fine-scale
ToggleFineScale ==
  \E seed \in Seeds :
    /\ heap.canvases <= MaxRegenerations
    /\ \E r \in {regenerateMat([viewer EXCEPT !.state.showFineScale = ~@], heap, seed)} :
         Regenerated("toggleFineScale", r)

\* click on #btn-download-png
DownloadPng ==
  \E seed \in Seeds :
    \E r \in {downloadImage(viewer.matGenerator, heap, seed)} :
      /\ viewer' = [viewer EXCEPT !.matGenerator = r.gen]
      /\ heap' = r.heap
      /\ lastCall' = [op |-> "downloadPng", surface |-> r.surface, object |-> 0]
      /\ UNCHANGED <<gen, marker, transform, demo>>

NextViewer ==
  \/ ToggleAruco
  \/ ToggleFineScale
  \/ DownloadPng

SpecViewer == InitViewer /\ [][NextViewer]_vars

\* the geometry, the material and the texture of a mesh
Owned(mesh) ==
  {heap.objects[mesh].geometry, heap.objects[mesh].material,
   heap.objects[heap.objects[mesh].material].map}

\* the meshes that regenerateMat has discarded
Discarded ==
  {i \in 1..Len(heap.objects) :
     heap.objects[i].kind = "mesh" /\ i # viewer.matMesh}

\* C9: after any number of regenerations every discarded mesh is out of the
\* scene and its geometry, its material and its texture have been released.
C9_Released ==
  \A mesh \in Discarded :
    /\ mesh \notin viewer.scene
    /\ \A i \in Owned(mesh) : heap.objects[i].disposed

\* the texture on the material of the mesh in the scene
MatTexture == heap.objects[heap.objects[viewer.matMesh].material].map

\* C20: after initialisation and after any sequence of regenerations the scene
\* holds exactly one mat mesh, viewer.matMesh is that mesh, its texture is the
\* one the current viewer.matGenerator made of its only surface, and that
\* generator has allocated one surface, which no other texture shows.
C20_OneMat ==
  /\ viewer.hasGenerator
  /\ viewer.matMesh # 0
  /\ viewer.scene = {viewer.matMesh}
  /\ heap.objects[viewer.matMesh].kind = "mesh"
  /\ MatTexture = viewer.matGenerator.texture
  /\ heap.objects[MatTexture].kind = "texture"
  /\ ~IsNull(viewer.matGenerator.canvas)
  /\ heap.objects[MatTexture].image = viewer.matGenerator.canvas.id
  /\ viewer.matGenerator.generateRuns = 1
  /\ \A i \in 1..Len(heap.objects) :
       (heap.objects[i].kind = "texture" /\ i # MatTexture) =>
         heap.objects[i].image # viewer.matGenerator.canvas.id

C20_Witness ==
  /\ lastCall.op = "downloadPng"
  /\ heap.canvases = 3
  /\ Cardinality({i \in 1..Len(heap.objects) : heap.objects[i].kind = "mesh"}) = 3
  /\ viewer.scene = {viewer.matMesh}
  /\ viewer.matGenerator.canvas.id = 3

\* the viewer's raster
MatRaster == viewer.matGenerator.canvas

\* the precision ticks of a raster at centimetres that are not multiples of 10
FineTicks(canvas) ==
  SelectSeq(CmTicks(canvas), LAMBDA o : o.tag.cm % 10 # 0)

\* C24: whatever showAruco and showFineScale are, the viewer's generator is the
\* one built from state.pixelsPerMeter alone and its raster has run the six
\* passes, with all 8 markers and the 1 cm ticks; a click on a toggle flips its
\* flag, leaves the rest of the state alone and replaces the mesh and the
\* generator, and the new raster is, the background aside, the old one.
C24_TogglesIgnored ==
  /\ [](/\ viewer.matGenerator.pixelsPerMeter = viewer.state.pixelsPerMeter
        /\ viewer.matGenerator.config
             = MatGenerator([pixelsPerMeter |-> viewer.state.pixelsPerMeter]).config
        /\ MatRaster.passes = PassOrder
        /\ Len(Placements(MatRaster)) = 2 * Len(arucoPositions)
        /\ Len(CmTicks(MatRaster)) = 141
        /\ Len(FineTicks(MatRaster)) = 126)
  /\ [][(lastCall'.op \in {"toggleAruco", "toggleFineScale"}) =>
          /\ viewer'.state.showAruco =
               IF lastCall'.op = "toggleAruco" THEN ~viewer.state.showAruco
               ELSE viewer.state.showAruco
          /\ viewer'.state.showFineScale =
               IF lastCall'.op = "toggleFineScale" THEN ~viewer.state.showFineScale
               ELSE viewer.state.showFineScale
          /\ viewer'.state.pixelsPerMeter = viewer.state.pixelsPerMeter
          /\ viewer'.matMesh # viewer.matMesh
          /\ viewer'.scene = {viewer'.matMesh}
          /\ viewer'.matGenerator.canvas.id # viewer.matGenerator.canvas.id
          /\ viewer'.matGenerator.canvas.width = viewer.matGenerator.canvas.width
          /\ viewer'.matGenerator.canvas.height = viewer.matGenerator.canvas.height
          /\ NonBackground(viewer'.matGenerator.canvas)
               = NonBackground(viewer.matGenerator.canvas)]_vars

C24_Witness ==
  /\ lastCall.op = "toggleFineScale"
  /\ ~viewer.state.showAruco
  /\ ~viewer.state.showFineScale
  /\ Len(Placements(MatRaster)) = 8
  /\ Len(FineTicks(MatRaster)) = 126

(***************************************************************************)
(* The demo: after new JumpMatViewer(), clicks on the demo and the reset   *)
(* button, frame callbacks and the callbacks of the timers, in any order.  *)
(***************************************************************************)
InitDemo ==
  /\ gen = MatGenerator(<< >>)
  /\ \E r \in {createMat(NewViewer, [canvases |-> 0, objects |-> << >>], 1)} :
       viewer = r.viewer /\ heap = r.heap
  /\ lastCall = NoCall
  /\ marker = NoMarker
  /\ transform = NoTransform
  /\ demo = NewDemo

DemoStep(op, w) ==
  /\ viewer' = w.viewer
  /\ demo' = w.demo
  /\ heap' = w.heap
  /\ lastCall' = [op |-> op, surface |-> 0, object |-> 0]
  /\ UNCHANGED <<gen, marker, transform>>

\* the people created so far
People == {i \in 1..Len(heap.objects) : heap.objects[i].kind = "person"}

\* this.startDemo(), from the click on #btn-demo
StartDemo ==
  /\ (~demo.demoMode.active /\ demo.demoMode.person = 0) =>
       Cardinality(People) < MaxPeople
  /\ \E w \in {startDemo(viewer, demo, heap)} : DemoStep("startDemo", w)

\* this.resetDemo(), from the click on #btn-reset-demo
ResetDemo ==
  \E w \in {resetDemo(viewer, demo, heap)} : DemoStep("resetDemo", w)

\* animate(), the requestAnimationFrame callback
Frame ==
  \E d \in {updateDemoAnimation(demo)} :
    /\ d.timers <= MaxTimers
    /\ DemoStep("animate", [viewer |-> viewer, demo |-> d, heap |-> heap])

\* a pending timer fires
Timer ==
  /\ demo.timers > 0
  /\ \E d \in {resetCallback(demo)} :
       DemoStep("timer", [viewer |-> viewer, demo |-> d, heap |-> heap])

NextDemo ==
  \/ StartDemo
  \/ ResetDemo
  \/ Frame
  \/ Timer

SpecDemo == InitDemo /\ [][NextDemo]_vars

\* C21: the callback of the timer changes neither animationPhase nor
\* animationProgress nor the person's position while a demo is active.
C21_ResetHarmless ==
  [][(lastCall'.op = "timer" /\ demo.demoMode.active) =>
       /\ demo'.demoMode.animationPhase = demo.demoMode.animationPhase
       /\ demo'.demoMode.animationProgress = demo.demoMode.animationProgress
       /\ demo'.position = demo.position]_vars

\* C22: a demo begins in phase 0, and as long as it is active its phase stays
\* or moves to the next one; it ends, unless resetDemo ends it, from phase 3.
C22_PhasesInOrder ==
  [][/\ (~demo.demoMode.active /\ demo'.demoMode.active) =>
          demo'.demoMode.animationPhase = 0
     /\ (demo.demoMode.active /\ demo'.demoMode.active) =>
          demo'.demoMode.animationPhase \in
            {demo.demoMode.animationPhase, demo.demoMode.animationPhase + 1}
     /\ (demo.demoMode.active /\ ~demo'.demoMode.active
         /\ lastCall'.op # "resetDemo") =>
          demo.demoMode.animationPhase = 3]_vars

\* the objects of a kind in the scene
InScene(kind) == {i \in viewer.scene : heap.objects[i].kind = kind}

\* C23: at all times the scene holds at most one person and at most one tripod,
\* and they are the objects demoMode.person and demoMode.tripod refer to; the
\* person is not null while active is true; and a call of startDemo while
\* active is true changes nothing.
C23_OnePerson ==
  /\ [](/\ Cardinality(InScene("person")) <= 1
        /\ Cardinality(InScene("tripod")) <= 1
        /\ InScene("person") = {demo.demoMode.person} \ {0}
        /\ InScene("tripod") = {demo.demoMode.tripod} \ {0}
        /\ demo.demoMode.active => demo.demoMode.person # 0)
  /\ [][(lastCall'.op = "startDemo" /\ demo.demoMode.active) =>
          UNCHANGED <<demo, viewer, heap>>]_vars

C23_Witness ==
  /\ lastCall.op = "startDemo"
  /\ demo.demoMode.active
  /\ demo.demoMode.animationPhase = 2
  /\ Cardinality(People) = 2
  /\ InScene("person") = {demo.demoMode.person}
  /\ InScene("tripod") = {demo.demoMode.tripod}
  /\ demo.timers = 1

=============================================================================
